---- MODULE Spec2Model ----
(***************************************************************************)
(* The LEB128 VarInt decoders of src/pages/blog/varint_decode.md:          *)
(* jsDecodeV1 (fresh 8-byte buffer per call) and jsDecodeV2..jsDecodeV4    *)
(* (module-level scratch buffer AB, viewed as two 32-bit lanes U32_VIEW    *)
(* and as one 64-bit value U64_VIEW).                                      *)
(*                                                                         *)
(* Machine words are sets of bit positions: a 32-bit word is a subset of   *)
(* 0..31 and a 64-bit value a subset of 0..63, so OR is union, a shift     *)
(* moves the positions and drops those that leave the word, and no value   *)
(* ever exceeds the integer range of the model checker.  Bytes are the     *)
(* numbers 0..255.                                                         *)
(***************************************************************************)
EXTENDS Integers, Sequences, FiniteSets, TLC

(***************************************************************************)
(* Bounds of the model.                                                    *)
(***************************************************************************)
\* longest of the short inputs
ShortLen == 4
\* longest run of continuation bytes among the long inputs
MaxRun == 12

(***************************************************************************)
(* Program constants.                                                      *)
(***************************************************************************)
\* `if (i === 11) throw new Error("Maximum size reached")`
MaxIndex == 11
\* `if (position === 28)`
FlushPosition == 28
\* width of one lane of the Uint32Array, and of the number `<<` works on
WordBits == 32

Procs == {1, 2}
\* the variants that decode into the module-level scratch buffer
Variants == {2, 3, 4}

(***************************************************************************)
(* Bit-level helpers.                                                      *)
(***************************************************************************)
\* the bits of a byte (0..255)
BitsOf(n) == {k \in 0..7 : (n \div (2^k)) % 2 = 1}

\* `x << s` on a 32-bit number: the shift count is taken modulo 32 and the
\* bits shifted out of the word are lost
Shl32(bits, s) == {b + (s % WordBits) : b \in bits} \cap (0..(WordBits - 1))

\* `intermediate |= (byte & 0x7F) << position`
Accumulate(intermediate, byte, position) ==
    intermediate \cup Shl32(BitsOf(byte % 128), position)

\* `intermediate = (byte >>> 3) & 0x07`
Reseed(byte) == BitsOf((byte \div 8) % 8)

\* `(byte & 0x80) !== 0x80`
IsTerminal(byte) == (byte \div 128) % 2 = 0

\* `Number(i > 3)`: the lane the last accumulator is written to
LaneM(i) == IF i > 2 THEN 1 ELSE 0
Lane(i) == IF i > 3 THEN 1 ELSE 0

\* `U32_VIEW[lane] = word` (lanes are numbered from 0)
Store(view, lane, word) == [view EXCEPT ![lane + 1] = word]

\* `U64_VIEW[0]`: the two lanes read as one 64-bit value, lane 0 the low word
\* (typed arrays use the platform's byte order: little-endian)
U64Read(view) == view[1] \cup {b + WordBits : b \in view[2]}

\* `U64_VIEW[0] = 0n` / `new ArrayBuffer(8)`
ZeroViewM(view) == view
ZeroView(view) == <<{}, {}>>

\* the position after one byte.  V1..V3: `if (position === 28) { position = 3 }
\* else { position += 7 }`; V4: `position = -4` in the branch, then the
\* unconditional `position += 7`
NextPositionM(v, position) ==
    IF v = 4
    THEN (IF position = FlushPosition THEN -3 ELSE position) + 7
    ELSE IF position = FlushPosition THEN 3 ELSE position + 7
NextPosition(v, position) ==
    IF v = 4
    THEN (IF position = FlushPosition THEN -4 ELSE position) + 7
    ELSE IF position = FlushPosition THEN 3 ELSE position + 7

(***************************************************************************)
(* A decoder as a function of its input, for a call that runs alone on a   *)
(* zeroed buffer.  jsDecodeV1 is always that: its buffer is allocated by   *)
(* the call (`new ArrayBuffer(8)`), so nothing outlives the call.          *)
(***************************************************************************)
Thrown == [kind |-> "throw", value |-> {}]
Returned(val) == [kind |-> "value", value |-> val]

RECURSIVE DecodeLoop(_, _, _, _, _, _)
DecodeLoop(v, inp, k, acc0, pos, view) ==
    IF k >= Len(inp) THEN Returned(U64Read(view))
    ELSE IF k = MaxIndex THEN Thrown
    ELSE LET byte == inp[k + 1]
             acc == Accumulate(acc0, byte, pos)
             flush == pos = FlushPosition
             view1 == IF flush THEN Store(view, 0, acc) ELSE view
             acc1 == IF flush THEN Reseed(byte) ELSE acc
         IN  IF IsTerminal(byte)
             THEN Returned(U64Read(Store(view1, Lane(k), acc1)))
             ELSE DecodeLoop(v, inp, k + 1, acc1, NextPosition(v, pos), view1)

jsDecodeV1(inp) == DecodeLoop(1, inp, 0, {}, 0, <<{}, {}>>)

\* what variant v returns for inp when no other call touches its buffer
Solo(v, inp) == DecodeLoop(v, inp, 0, {}, 0, <<{}, {}>>)

(***************************************************************************)
(* Inputs.                                                                 *)
(***************************************************************************)
ContBytes == {128, 129, 255}
LastBytes == {0, 1, 127, 128, 255}
RunBytes == {128, 255}

Repeat(c, n) == [j \in 1..n |-> c]

\* the unsigned 64-bit values whose canonical encodings are inputs:
\* 0, 2^k, 2^(k+1) - 1 and 2^64 - 2^k
Values ==
    {{}} \cup {{k} : k \in 0..63} \cup {0..k : k \in 0..63}
         \cup {k..63 : k \in 1..63}

MaxOf(S) == CHOOSE x \in S : \A y \in S : y <= x

\* a set of bit positions below 31 as a number
RECURSIVE ToNat(_)
ToNat(S) == IF S = {} THEN 0
            ELSE LET b == MaxOf(S) IN (2^b) + ToNat(S \ {b})

\* canonical LEB128: 7 bits per byte, least significant group first, 0x80
\* on every byte but the last, no trailing zero groups
EncodeLen(val) == IF val = {} THEN 1 ELSE (MaxOf(val) \div 7) + 1
Encode(val) ==
    [j \in 1..EncodeLen(val) |->
        ToNat({b - 7 * (j - 1) : b \in {x \in val : x \div 7 = j - 1}})
          + (IF j < EncodeLen(val) THEN 128 ELSE 0)]

\* up to ShortLen bytes: continuation bytes, then any last byte
ShortInputs ==
    {<<>>} \cup UNION {{c \o <<x>> : c \in [1..(n - 1) -> ContBytes], x \in LastBytes}
                        : n \in 1..ShortLen}
\* a run of equal continuation bytes, then nothing, a terminal byte, or a
\* terminal byte and one more byte
LongInputs ==
    {Repeat(c, n) \o t : c \in RunBytes, n \in 0..MaxRun,
                         t \in {<<>>, <<1>>, <<127>>, <<1, 255>>}}
CanonicalInputs == {Encode(val) : val \in Values}
Inputs == ShortInputs \cup LongInputs \cup CanonicalInputs

\* the inputs of the interleaved calls
SmallInputs == {<<1>>, <<128, 129>>, <<255, 255, 255, 255, 15>>}

(***************************************************************************)
(* State.  Each of jsDecodeV2..V4 is its own module with its own AB, so    *)
(* the variant is fixed for a run.  A call's locals are indexed by the     *)
(* call (Procs): the program itself runs one call at a time.               *)
(***************************************************************************)
VARIABLES
    variant,       \* which of jsDecodeV2..V4 the module defines
    U32_VIEW,      \* the scratch buffer AB: <<lane 0, lane 1>>
    pc,            \* per call: "idle", "loop", "ret", "done"
    input,         \* per call: the Uint8Array passed in
    i,             \* per call: the loop index
    intermediate,  \* per call: the 32-bit accumulator
    position,      \* per call: the shift of the next 7 bits
    outcome,       \* per call: "none", "value", "throw"
    result,        \* per call: the value returned
    stale,         \* history, per call: the call began on an AB that a call
                   \* that threw had left non-zero
    interfered     \* history, per call: another call wrote AB during this one

vars == <<variant, U32_VIEW, pc, input, i, intermediate, position, outcome,
          result, stale, interfered>>

InFlight(p) == pc[p] \in {"loop", "ret"}

\* marks every other in-flight call when p writes the scratch buffer
Touch(p) == [q \in Procs |->
               IF q = p THEN interfered[q] ELSE interfered[q] \/ InFlight(q)]

Init ==
    /\ variant \in Variants
    /\ U32_VIEW = <<{}, {}>>
    /\ pc = [p \in Procs |-> "idle"]
    /\ input = [p \in Procs |-> <<>>]
    /\ i = [p \in Procs |-> 0]
    /\ intermediate = [p \in Procs |-> {}]
    /\ position = [p \in Procs |-> 0]
    /\ outcome = [p \in Procs |-> "none"]
    /\ result = [p \in Procs |-> {}]
    /\ stale = [p \in Procs |-> FALSE]
    /\ interfered = [p \in Procs |-> FALSE]

\* function entry: `U64_VIEW[0] = 0n; let intermediate = 0; let position = 0;`
\* and the loop's `let i = 0`
Call(p, inp) ==
    /\ pc[p] \in {"idle", "done"}
    /\ U32_VIEW' = ZeroView(U32_VIEW)
    /\ pc' = [pc EXCEPT ![p] = "loop"]
    /\ input' = [input EXCEPT ![p] = inp]
    /\ i' = [i EXCEPT ![p] = 0]
    /\ intermediate' = [intermediate EXCEPT ![p] = {}]
    /\ position' = [position EXCEPT ![p] = 0]
    /\ outcome' = [outcome EXCEPT ![p] = "none"]
    /\ result' = [result EXCEPT ![p] = {}]
    /\ stale' = [stale EXCEPT ![p] = (U32_VIEW # <<{}, {}>> /\ outcome[p] = "throw")]
    /\ interfered' = [Touch(p) EXCEPT ![p] = FALSE]
    /\ UNCHANGED variant

\* `i < length` is false: the loop ends without a terminal byte
LoopExit(p) ==
    /\ pc[p] = "loop"
    /\ i[p] >= Len(input[p])
    /\ pc' = [pc EXCEPT ![p] = "ret"]
    /\ UNCHANGED <<variant, U32_VIEW, input, i, intermediate, position,
                   outcome, result, stale, interfered>>

\* `if (i === 11) throw new Error("Maximum size reached")`
Throw(p) ==
    /\ pc[p] = "loop"
    /\ i[p] < Len(input[p])
    /\ i[p] = MaxIndex
    /\ pc' = [pc EXCEPT ![p] = "done"]
    /\ outcome' = [outcome EXCEPT ![p] = "throw"]
    /\ UNCHANGED <<variant, U32_VIEW, input, i, intermediate, position,
                   result, stale, interfered>>

\* the end of an iteration on a terminal byte: `break`
AfterTerminalM(p) ==
    /\ pc' = pc
    /\ i' = [i EXCEPT ![p] = i[p] + 1]
AfterTerminal(p) ==
    /\ pc' = [pc EXCEPT ![p] = "ret"]
    /\ i' = i

\* one iteration of the loop body on `input[i]`
DecodeByte(p) ==
    /\ pc[p] = "loop"
    /\ i[p] < Len(input[p])
    /\ i[p] # MaxIndex
    /\ LET byte == input[p][i[p] + 1]
           acc == Accumulate(intermediate[p], byte, position[p])
           flush == position[p] = FlushPosition
           view1 == IF flush THEN Store(U32_VIEW, 0, acc) ELSE U32_VIEW
           acc1 == IF flush THEN Reseed(byte) ELSE acc
       IN  /\ intermediate' = [intermediate EXCEPT ![p] = acc1]
           /\ position' = [position EXCEPT ![p] = NextPosition(variant, position[p])]
           /\ IF IsTerminal(byte)
              THEN /\ U32_VIEW' = Store(view1, Lane(i[p]), acc1)
                   /\ AfterTerminal(p)
                   /\ interfered' = Touch(p)
              ELSE /\ U32_VIEW' = view1
                   /\ pc' = pc
                   /\ i' = [i EXCEPT ![p] = i[p] + 1]
                   /\ interfered' = IF flush THEN Touch(p) ELSE interfered
    /\ UNCHANGED <<variant, input, outcome, result, stale>>

\* `return U64_VIEW[0]`
Return(p) ==
    /\ pc[p] = "ret"
    /\ pc' = [pc EXCEPT ![p] = "done"]
    /\ outcome' = [outcome EXCEPT ![p] = "value"]
    /\ result' = [result EXCEPT ![p] = U64Read(U32_VIEW)]
    /\ UNCHANGED <<variant, U32_VIEW, input, i, intermediate, position,
                   stale, interfered>>

\* JavaScript runs each call to completion: one call at a time
Next ==
    \/ \E inp \in Inputs : Call(1, inp)
    \/ LoopExit(1)
    \/ Throw(1)
    \/ DecodeByte(1)
    \/ Return(1)

Spec == Init /\ [][Next]_vars

\* two calls on the shared buffer, interleaved between loop iterations; their
\* inputs are shorter than 12 bytes, so neither throws
NextInterleaved ==
    \/ \E p \in Procs, inp \in SmallInputs : Call(p, inp)
    \/ \E p \in Procs : LoopExit(p)
    \/ \E p \in Procs : DecodeByte(p)
    \/ \E p \in Procs : Return(p)

SpecInterleaved == Init /\ [][NextInterleaved]_vars

TypeOK ==
    /\ variant \in Variants
    /\ U32_VIEW \in Seq(SUBSET (0..31)) /\ Len(U32_VIEW) = 2
    /\ \A p \in Procs :
        /\ pc[p] \in {"idle", "loop", "ret", "done"}
        /\ intermediate[p] \subseteq 0..31
        /\ result[p] \subseteq 0..63
        /\ i[p] \in 0..MaxIndex
        /\ i[p] <= Len(input[p])
        /\ outcome[p] \in {"none", "value", "throw"}

(***************************************************************************)
(* What the claims compare the decoders with.                              *)
(***************************************************************************)
\* the 1-based index of the first terminal byte of inp, 0 when it has none
FirstTerminal(inp) ==
    IF \E k \in 1..Len(inp) : IsTerminal(inp[k])
    THEN CHOOSE k \in 1..Len(inp) :
            IsTerminal(inp[k]) /\ \A j \in 1..(k - 1) : ~IsTerminal(inp[j])
    ELSE 0

\* the sum over k of (byte_k & 0x7F) * 2^(7k), for the first n bytes (n <= 4)
RECURSIVE PayloadSum(_, _)
PayloadSum(inp, n) ==
    IF n = 0 THEN 0
    ELSE PayloadSum(inp, n - 1) + (inp[n] % 128) * (2^(7 * (n - 1)))

\* the 16-bit limb n (0..3) of a 64-bit value, as a number
Limb16(val, n) == ToNat({b - 16 * n : b \in {x \in val : x \div 16 = n}})

\* the bytes a finished call has consumed
Consumed(p) == IF i[p] < Len(input[p]) THEN i[p] + 1 ELSE i[p]

\* nine 0xFF bytes and 0x01: the canonical encoding of 2^64 - 1
MaxEncoding == Repeat(255, 9) \o <<1>>

Done(p) == pc[p] = "done"

(***************************************************************************)
(* C1.  Round trip: for every unsigned 64-bit value v, decoding the        *)
(* canonical LEB128 encoding of v returns exactly v and stops after        *)
(* len(encode(v)) bytes (jsDecodeV1 as well as the variants of the run).   *)
(***************************************************************************)
C1_RoundTrip ==
    (Done(1) /\ input[1] \in CanonicalInputs) => \A val \in Values :
        input[1] = Encode(val) =>
            /\ outcome[1] = "value"
            /\ result[1] = val
            /\ Consumed(1) = EncodeLen(val)
            /\ jsDecodeV1(input[1]) = Returned(val)

(***************************************************************************)
(* C2.  Decode never returns a value after consuming more than 10 bytes:   *)
(* an input whose first 10 bytes all have the continuation bit set is      *)
(* rejected with an error, including an 11-byte input whose 11th byte is   *)
(* a terminal byte.                                                        *)
(***************************************************************************)
C2_AtMostTenBytes ==
    Done(1) =>
        /\ outcome[1] = "value" => Consumed(1) <= 10
        /\ (Len(input[1]) >= 11 /\ \A k \in 1..10 : ~IsTerminal(input[1][k]))
              => outcome[1] = "throw"

(***************************************************************************)
(* C3.  For every input of 11 or more bytes in which every byte has the    *)
(* continuation bit set, decode fails and does not return a value.         *)
(***************************************************************************)
C3_OverlongThrows ==
    (Done(1) /\ Len(input[1]) >= 11 /\ FirstTerminal(input[1]) = 0)
        => outcome[1] = "throw"

(***************************************************************************)
(* C4.  For every input that ends without a terminal byte (empty, or all   *)
(* bytes with the continuation bit set), decode fails with an error        *)
(* instead of returning a value, and never reads past the end.             *)
(***************************************************************************)
C4_TruncatedThrows ==
    /\ i[1] <= Len(input[1])
    /\ (Done(1) /\ FirstTerminal(input[1]) = 0) => outcome[1] = "throw"

(***************************************************************************)
(* C5.  Lane boundary: for every value whose encoding is exactly 5 bytes,  *)
(* the flush at position 28 puts the low 4 payload bits of the 5th byte    *)
(* into bits 28..31 of the low word and reseeds the accumulator with       *)
(* (byte >> 4) & 0x07, so the decoded value matches exactly.               *)
(***************************************************************************)
C5_LaneBoundary ==
    pc[1] \in {"ret", "done"} => \A val \in Values :
        (EncodeLen(val) = 5 /\ input[1] = Encode(val)) =>
            /\ pc[1] = "ret" =>
                 /\ U32_VIEW[1] \cap (28..31) = {b + 28 : b \in BitsOf(input[1][5] % 16)}
                 /\ intermediate[1] = BitsOf((input[1][5] \div 16) % 8)
            /\ Done(1) => (outcome[1] = "value" /\ result[1] = val)

(***************************************************************************)
(* C6.  For every input of 1 to 4 bytes whose last byte is the only one    *)
(* with the continuation bit clear, decode returns the sum over k of       *)
(* (byte_k & 0x7F) * 2^(7k) and consumes all of those bytes.               *)
(***************************************************************************)
C6_LowLane ==
    (Done(1) /\ Len(input[1]) \in 1..4 /\ FirstTerminal(input[1]) = Len(input[1])) =>
        /\ outcome[1] = "value"
        /\ result[1] \subseteq 0..27
        /\ ToNat(result[1] \cap (0..27)) = PayloadSum(input[1], Len(input[1]))
        /\ Consumed(1) = Len(input[1])
        /\ jsDecodeV1(input[1]) = Returned(result[1])

C6_Witness ==
    /\ Done(1) /\ input[1] = <<255, 129, 128, 127>>
    /\ outcome[1] = "value"
    /\ ToNat(result[1]) = 127 + 128 + 127 * (2^21)

(***************************************************************************)
(* C7.  Decoding nine 0xFF bytes followed by 0x01 returns 2^64 - 1 (every  *)
(* one of the 64 bits set, each 16-bit limb 65535) after consuming exactly *)
(* 10 bytes.                                                               *)
(***************************************************************************)
C7_MaxValue ==
    (Done(1) /\ input[1] = MaxEncoding) =>
        /\ outcome[1] = "value"
        /\ result[1] = 0..63
        /\ \A n \in 0..3 : Limb16(result[1], n) = 65535
        /\ Consumed(1) = 10
        /\ jsDecodeV1(input[1]) = Returned(0..63)

C7_Witness ==
    Done(1) /\ input[1] = MaxEncoding /\ outcome[1] = "value" /\ i[1] = 9

(***************************************************************************)
(* C8.  Decode stops at the first byte whose continuation bit is clear:    *)
(* once that byte is processed no further byte is read and neither lane    *)
(* is written again, so the value returned is the one decoded from the     *)
(* bytes up to and including that byte, whatever follows it.               *)
(***************************************************************************)
C8_StopsAtTerminal ==
    LET t == FirstTerminal(input[1])
        prefix == SubSeq(input[1], 1, t)
    IN  (t > 0 /\ t <= MaxIndex) =>
            /\ i[1] < t
            /\ pc[1] \in {"ret", "done"} =>
                 /\ i[1] = t - 1
                 /\ Returned(U64Read(U32_VIEW)) = Solo(variant, prefix)
            /\ Done(1) => (outcome[1] = "value" /\ Returned(result[1]) = Solo(variant, prefix))

C8_Witness ==
    /\ Done(1) /\ input[1] = <<255, 255, 1, 255>>
    /\ i[1] = 2 /\ outcome[1] = "value"
    /\ ToNat(result[1]) = 127 + 127 * 128 + 16384

(***************************************************************************)
(* C9.  The variants are observably equivalent: over any sequence of       *)
(* calls, the variant of the run (shared scratch buffer, reset at call     *)
(* start) returns on each call the value jsDecodeV1 (fresh buffer) returns *)
(* for that input, or throws where jsDecodeV1 throws, whatever an earlier  *)
(* call left in the scratch buffer.                                        *)
(***************************************************************************)
C9_Equivalent ==
    Done(1) =>
        IF outcome[1] = "throw"
        THEN jsDecodeV1(input[1]) = Thrown
        ELSE jsDecodeV1(input[1]) = Returned(result[1])

\* a V4 call that returned its value after starting on the buffer that a call
\* that threw had left non-zero
C9_Witness ==
    /\ variant = 4 /\ Done(1) /\ stale[1]
    /\ outcome[1] = "value" /\ input[1] = <<129, 1>>
    /\ ToNat(result[1]) = 129

(***************************************************************************)
(* C10.  The shared scratch buffer is not protected: when two calls        *)
(* interleave between loop iterations, a call can return a value different *)
(* from the one it returns when run alone on the same input (the witness), *)
(* and it does so only when the other call wrote the buffer while it was   *)
(* in flight.                                                              *)
(***************************************************************************)
Corrupted(p) ==
    Done(p) /\ outcome[p] = "value" /\ Returned(result[p]) # Solo(variant, input[p])

C10_OnlyByInterference ==
    \A p \in Procs : Corrupted(p) => interfered[p]

C10_Witness ==
    \E p \in Procs : Corrupted(p) /\ interfered[p] /\ input[p] = <<255, 255, 255, 255, 15>>
====
